---- MODULE Spec2Model ----
(***************************************************************************)
(* State-machine model of src/script.js: the photo selection handler, the  *)
(* preparation pipeline (HEIC normalisation, decode, resize/re-encode) and *)
(* the submit handler with its XMLHttpRequest callbacks.                   *)
(*                                                                         *)
(* One action is one browser task: an event dispatch or the delivery of a  *)
(* completion callback, together with the promise continuations            *)
(* (microtasks) that run before the next task can start.  An await on an   *)
(* already settled promise (ensureImageCanLoad of a non-HEIC file) is      *)
(* therefore not a point where another handler can run; an await on        *)
(* heic2any, FileReader, Image, canvas.toBlob or the XHR is.               *)
(*                                                                         *)
(* Strings that the code inspects (file names, MIME types) are sequences   *)
(* of one-character strings, so that startsWith and the regular            *)
(* expressions are computed rather than assumed.  The preview DOM          *)
(* (previewContainer) carries no decision and is left out.                 *)
(***************************************************************************)
EXTENDS Integers, Sequences, FiniteSets, TLC

(* ------------------------------------------------------------------ *)
(* Program constants                                                   *)
(* ------------------------------------------------------------------ *)
MAX_FILES == 10
MAX_FILE_SIZE_BYTES == 20 * 1024 * 1024
MAX_WIDTH == 1920

(* Bound of the model: how many user events (changes of the selection and
   submits of the form) occur in a run.                                     *)
MaxEvents == 3

(* ------------------------------------------------------------------ *)
(* Character strings                                                   *)
(* ------------------------------------------------------------------ *)
UpperChars == <<"A","B","C","D","E","F","G","H","I","J","K","L","M",
                "N","O","P","Q","R","S","T","U","V","W","X","Y","Z">>
LowerChars == <<"a","b","c","d","e","f","g","h","i","j","k","l","m",
                "n","o","p","q","r","s","t","u","v","w","x","y","z">>

ToLowerChar(c) ==
  IF \E k \in 1..26 : UpperChars[k] = c
    THEN LowerChars[CHOOSE k \in 1..26 : UpperChars[k] = c]
    ELSE c

ToLower(s) == [k \in 1..Len(s) |-> ToLowerChar(s[k])]

StartsWith(s, p) == Len(s) >= Len(p) /\ SubSeq(s, 1, Len(p)) = p

EndsWith(s, p) == Len(s) >= Len(p) /\ SubSeq(s, Len(s) - Len(p) + 1, Len(s)) = p

(* /p$/i.test(s) for a literal p given in lower case *)
EndsWithIgnoreCase(s, p) == EndsWith(ToLower(s), p)

IMAGE_PREFIX == <<"i","m","a","g","e","/">>
TYPE_JPEG == IMAGE_PREFIX \o <<"j","p","e","g">>
TYPE_PNG  == IMAGE_PREFIX \o <<"p","n","g">>
TYPE_HEIC == IMAGE_PREFIX \o <<"h","e","i","c">>
TYPE_HEIF == IMAGE_PREFIX \o <<"h","e","i","f">>
TYPE_PDF  == <<"a","p","p","l","i","c","a","t","i","o","n","/","p","d","f">>
TYPE_NONE == << >>

EXT_HEIC == <<".","h","e","i","c">>
EXT_HEIF == <<".","h","e","i","f">>
EXT_JPG  == <<".","j","p","g">>

HEIC_TYPES == {TYPE_HEIC, TYPE_HEIF}

(* ------------------------------------------------------------------ *)
(* Format normaliser                                                   *)
(* ------------------------------------------------------------------ *)
(* Variant: the two name tests without the i flag *)
isHeicFile_CaseSensitive(file) ==
  \/ file.type \in HEIC_TYPES
  \/ EndsWith(file.name, EXT_HEIC)
  \/ EndsWith(file.name, EXT_HEIF)

isHeicFile(file) ==
  \/ file.type \in HEIC_TYPES
  \/ EndsWithIgnoreCase(file.name, EXT_HEIC)
  \/ EndsWithIgnoreCase(file.name, EXT_HEIF)

(* file.name.replace(/\.(heic|heif)$/i, '.jpg') *)
ReplaceHeicExt(name) ==
  IF EndsWithIgnoreCase(name, EXT_HEIC) \/ EndsWithIgnoreCase(name, EXT_HEIF)
    THEN SubSeq(name, 1, Len(name) - 5) \o EXT_JPG
    ELSE name

(* The File that convertHeicToJpeg builds once heic2any has delivered a blob.
   The converted blob decodes to the raster of the original; its byte size is
   whatever the conversion produced and plays no part afterwards.            *)
convertHeicToJpeg(file) ==
  [file EXCEPT !.name = ReplaceHeicExt(file.name), !.type = TYPE_JPEG]

(* ------------------------------------------------------------------ *)
(* Validator (the two per-file rules of the change handler)            *)
(* ------------------------------------------------------------------ *)
(* Variant: any declared type is taken for an image type *)
isValidImage_AnyType(file) == Len(file.type) > 0 \/ isHeicFile(file)

isValidImage(file) == StartsWith(file.type, IMAGE_PREFIX) \/ isHeicFile(file)

TooLarge(file) == file.size > MAX_FILE_SIZE_BYTES

(* Variant: the selection is not cut to MAX_FILES *)
limitedFiles_All(files) == files

limitedFiles(files) == SubSeq(files, 1, IF Len(files) < MAX_FILES THEN Len(files) ELSE MAX_FILES)

(* ------------------------------------------------------------------ *)
(* The files a user can pick.  A file is what the code reads of it:    *)
(* name, declared type, size in bytes and, once decoded, the raster's   *)
(* width and height.                                                   *)
(* ------------------------------------------------------------------ *)
MkFile(n, t, sz, w, h) == [name |-> n, type |-> t, size |-> sz, width |-> w, height |-> h]

NoFile == MkFile(<< >>, << >>, 0, 0, 0)

F_JPG   == MkFile(<<"a",".","j","p","g">>, TYPE_JPEG, 1000, 800, 600)
F_WIDE  == MkFile(<<"w",".","p","n","g">>, TYPE_PNG, MAX_FILE_SIZE_BYTES, 3000, 2000)
F_HEICX == MkFile(<<"P",".","H","E","I","C">>, TYPE_NONE, 2000, 1200, 1600)
F_PDF   == MkFile(<<"d",".","p","d","f">>, TYPE_PDF, 10, 0, 0)
F_BIG   == MkFile(<<"b",".","j","p","g">>, TYPE_JPEG, MAX_FILE_SIZE_BYTES + 1, 800, 600)
F_TALL  == MkFile(<<"t",".","j","p","g">>, TYPE_JPEG, 4000, 2816, 2827)
F_HEIF  == MkFile(<<"q",".","j","p","g">>, TYPE_HEIF, MAX_FILE_SIZE_BYTES + 1, 1920, 1080)
F_BIGDOC == MkFile(<<"e",".","p","d","f">>, TYPE_PDF, MAX_FILE_SIZE_BYTES + 1, 0, 0)

(* The selections a change event can carry (event.target.files): none; a
   HEIC file named so only by its extension, a file over the size limit and
   a wide image of exactly the limit; twelve images, the first of them
   wider than MAX_WIDTH and taller than wide; eleven files of which the
   first ten are rejected: eight documents, a document over the size limit
   and a HEIF file, declared so only by its type, over the size limit.      *)
Selections ==
  << << >>,
     << F_HEICX, F_BIG, F_WIDE >>,
     << F_TALL, F_JPG, F_JPG, F_JPG, F_JPG, F_JPG, F_JPG, F_JPG, F_JPG, F_JPG,
        F_JPG, F_HEICX >>,
     << F_PDF, F_PDF, F_PDF, F_PDF, F_PDF, F_PDF, F_PDF, F_PDF, F_BIGDOC, F_HEIF,
        F_JPG >> >>

SelIds == 1..Len(Selections)

(* ------------------------------------------------------------------ *)
(* Messages (setMessage): text, the file name spliced into it, type    *)
(* ------------------------------------------------------------------ *)
Msg(text, arg, type) == [text |-> text, arg |-> arg, type |-> type]

NoMessage        == Msg("", << >>, "")
MsgTooManyFiles  == Msg("You can select a maximum of 10 photos.", << >>, "error")
MsgNotAnImage    == Msg("Only image files are allowed.", << >>, "error")
MsgFileTooLarge(name) ==
  Msg("Each photo must be smaller than 20MB. \"<name>\" is too large.", name, "error")
MsgPreviewFailed(name) ==
  Msg("Could not preview \"<name>\". It may still upload.", name, "error")
MsgNoValidFiles  ==
  Msg("No valid images selected. Please choose different files.", << >>, "error")
MsgNotProcessed  ==
  Msg("One of the images could not be processed. Please try different files.", << >>, "error")
MsgPleaseSelect  == Msg("Please select at least one photo.", << >>, "error")
(* The two Turkish texts are written here without diacritics. *)
MsgUploaded      ==
  Msg("Tesekkurler! Fotograflariniz basariyla yuklendi.", << >>, "success")
DefaultUploadError ==
  "Fotograflarinizi yuklerken birseyler ters gitti. Lutfen tekrar deneyin."
MsgBadResponse   ==
  Msg("An unexpected error occurred while processing the server response.", << >>, "error")
MsgNetworkError  ==
  Msg("Could not reach the server. Please check your connection and try again.", << >>, "error")

(* ------------------------------------------------------------------ *)
(* Server responses: xhr.status and xhr.responseText.  A body is empty, *)
(* not parsable as JSON, or JSON text standing for a value.             *)
(* ------------------------------------------------------------------ *)
Undefined   == [t |-> "undefined"]
Null        == [t |-> "null"]
Bool(b)     == [t |-> "boolean", b |-> b]
Num(n)      == [t |-> "number", n |-> n]
Str(x)      == [t |-> "string", s |-> x]
Obj(fields) == [t |-> "object", fields |-> fields]

EmptyBody     == [kind |-> "empty"]
InvalidBody   == [kind |-> "invalid"]
JsonBody(v)   == [kind |-> "json", value |-> v]

Response(status, body) == [status |-> status, body |-> body]

Responses ==
  << Response(200, JsonBody(Obj([success |-> Bool(TRUE)]))),
     Response(299, JsonBody(Obj([success |-> Bool(TRUE), error |-> Str("ignored")]))),
     Response(200, JsonBody(Obj([success |-> Bool(FALSE)]))),
     Response(200, JsonBody(Null)),
     Response(200, EmptyBody),
     Response(200, InvalidBody),
     Response(200, JsonBody(Obj([success |-> Num(1)]))),
     Response(300, JsonBody(Obj([success |-> Bool(TRUE)]))),
     Response(500, JsonBody(Obj([success |-> Bool(FALSE), error |-> Str("disk full")]))),
     Response(500, JsonBody(Obj([success |-> Bool(FALSE), error |-> Str("")]))) >>

RespIds == 1..Len(Responses)

(* What xhr.status and xhr.responseText hold when the request failed at the
   network level.                                                            *)
NetworkFailure == Response(0, EmptyBody)

(* JavaScript truthiness *)
Truthy(v) ==
  CASE v.t = "boolean" -> v.b
    [] v.t = "number"  -> v.n # 0
    [] v.t = "string"  -> v.s # ""
    [] v.t = "object"  -> TRUE
    [] OTHER           -> FALSE

(* v.field for a value v that is not null or undefined *)
Get(v, field) ==
  IF v.t = "object" /\ field \in DOMAIN v.fields THEN v.fields[field] ELSE Undefined

(* xhr.responseText ? JSON.parse(xhr.responseText) : null; "throws" stands
   for the SyntaxError of JSON.parse.                                       *)
ParseResponse(body) ==
  CASE body.kind = "empty"   -> [throws |-> FALSE, value |-> Null]
    [] body.kind = "invalid" -> [throws |-> TRUE,  value |-> Undefined]
    [] body.kind = "json"    -> [throws |-> FALSE, value |-> body.value]

(* Variant: the status class is not looked at *)
IsSuccess_NoStatus(status, response) ==
  Truthy(response) /\ Truthy(Get(response, "success"))

(* status >= 200 && status < 300 && response && response.success *)
IsSuccess(status, response) ==
  /\ status >= 200
  /\ status < 300
  /\ Truthy(response)
  /\ Truthy(Get(response, "success"))

(* Variant: the error the server names is dropped *)
ErrorMessageOf_Default(response) == DefaultUploadError

(* (response && response.error) || DEFAULT.  The responses above carry an
   error that is a string or is absent, so the text shown is the string.    *)
ErrorMessageOf(response) ==
  IF Truthy(response) /\ Truthy(Get(response, "error"))
    THEN Get(response, "error").s
    ELSE DefaultUploadError

(* The readyState === DONE branch of xhr.onreadystatechange:
   the message it sets and whether it resolves or rejects the promise.      *)
OnReadyStateDone(resp) ==
  LET parsed == ParseResponse(resp.body) IN
  IF parsed.throws
    THEN [ok |-> FALSE, msg |-> MsgBadResponse]
    ELSE IF IsSuccess(resp.status, parsed.value)
      THEN [ok |-> TRUE, msg |-> MsgUploaded]
      ELSE [ok |-> FALSE, msg |-> Msg(ErrorMessageOf(parsed.value), << >>, "error")]

(* ------------------------------------------------------------------ *)
(* State                                                               *)
(* ------------------------------------------------------------------ *)
VARIABLES
  arrays,          \* the array objects selectedFiles has been bound to, in creation order
  selectedFiles,   \* which of them the global selectedFiles refers to now
  message,         \* messageEl: text and type
  uploadDisabled,  \* uploadButton.disabled
  inputDisabled,   \* fileInput.disabled
  progressHidden,  \* progressWrapper.hidden
  progress,        \* progressBarFill width, in percent
  timers,          \* setTimeout callbacks scheduled and not yet run
  changes,         \* the change handler invocations, in event order
  subs,            \* the submit handler invocations, in event order
  requests,        \* the upload requests sent, in order
  delivered        \* the response delivered last: to which invocation, and which

vars == <<arrays, selectedFiles, message, uploadDisabled, inputDisabled,
          progressHidden, progress, timers, changes, subs, requests, delivered>>

(* A file of the batch is named by the change event that selected it and
   its position in that selection.                                          *)
Ref(ev, pos) == [ev |-> ev, pos |-> pos]

FileOf(ref) == Selections[changes[ref.ev].sel][ref.pos]

Batch == arrays[selectedFiles]

(* The page as the script finds it.  Whether the upload button starts
   disabled is decided by the markup, which the script does not set.        *)
Init ==
  /\ arrays = << << >> >>
  /\ selectedFiles = 1
  /\ message = NoMessage
  /\ uploadDisabled \in BOOLEAN
  /\ inputDisabled = FALSE
  /\ progressHidden = TRUE
  /\ progress = 0
  /\ timers = 0
  /\ changes = << >>
  /\ subs = << >>
  /\ requests = << >>
  /\ delivered = [sub |-> 0, resp |-> 0]

(* ------------------------------------------------------------------ *)
(* The change handler of fileInput                                     *)
(* ------------------------------------------------------------------ *)
(* The for loop over limitedFiles from position i on, run until it suspends
   in the conversion of a HEIC file it has just pushed (pc "conv") or runs
   off the end (pc "end").  arr is the array selectedFiles refers to, msg
   the message, diags the validation diagnostics this invocation emitted,
   verdicts the branch the loop body took for each file so far.             *)
RECURSIVE ChangeLoop(_, _, _, _, _, _, _)
ChangeLoop(ev, files, i, arr, msg, diags, verdicts) ==
  IF i > Len(limitedFiles(files))
    THEN [pc |-> "end", i |-> i, arr |-> arr, msg |-> msg, diags |-> diags,
          verdicts |-> verdicts]
    ELSE
      LET file == files[i] IN
      IF ~isValidImage(file)
        THEN ChangeLoop(ev, files, i + 1, arr, MsgNotAnImage, Append(diags, "NotAnImage"),
                        Append(verdicts, "NotAnImage"))
      ELSE IF TooLarge(file)
        THEN ChangeLoop(ev, files, i + 1, arr, MsgFileTooLarge(file.name),
                        Append(diags, "FileTooLarge"), Append(verdicts, "FileTooLarge"))
      ELSE IF isHeicFile(file)
        THEN [pc |-> "conv", i |-> i, arr |-> Append(arr, Ref(ev, i)),
              msg |-> msg, diags |-> diags, verdicts |-> Append(verdicts, "pushed")]
      ELSE ChangeLoop(ev, files, i + 1, Append(arr, Ref(ev, i)), msg, diags,
                      Append(verdicts, "pushed"))

(* What the handler does when the loop stops: suspended in a conversion it
   touches nothing more; at the end of the loop it runs lines 128-132, the
   NoValidFiles message and updateUploadButtonState.                        *)
ChangeEnd(files, r) ==
  IF r.pc = "conv"
    THEN [pc |-> "conv", msg |-> r.msg, diags |-> r.diags, disabled |-> uploadDisabled]
    ELSE
      LET none == Len(r.arr) = 0 /\ Len(files) > 0 IN
      [pc       |-> "done",
       msg      |-> IF none THEN MsgNoValidFiles ELSE r.msg,
       diags    |-> IF none THEN Append(r.diags, "NoValidFiles") ELSE r.diags,
       disabled |-> Len(r.arr) = 0]

(* A change event carrying selection sel: lines 66-133 up to the first
   suspension.  The user can change the selection only while the input is
   enabled.                                                                 *)
ChangeEvent(sel) ==
  /\ ~inputDisabled
  /\ Len(changes) + Len(subs) < MaxEvents
  /\ LET files  == Selections[sel]
         ev     == Len(changes) + 1
         many   == Len(files) > MAX_FILES
         r      == IF Len(files) = 0
                     THEN [pc |-> "end", i |-> 1, arr |-> << >>,
                           msg |-> NoMessage, diags |-> << >>, verdicts |-> << >>]
                     ELSE ChangeLoop(ev, files, 1, << >>,
                                     IF many THEN MsgTooManyFiles ELSE NoMessage,
                                     IF many THEN <<"TooManyFiles">> ELSE << >>, << >>)
         e      == ChangeEnd(files, r)
     IN /\ arrays' = Append(arrays, r.arr)
        /\ selectedFiles' = Len(arrays) + 1
        /\ message' = e.msg
        /\ uploadDisabled' = e.disabled
        /\ changes' = Append(changes, [sel |-> sel, pc |-> e.pc, i |-> r.i, diags |-> e.diags,
                                       verdicts |-> r.verdicts])
  /\ UNCHANGED <<inputDisabled, progressHidden, progress, timers, subs, requests, delivered>>

(* heic2any settles for the file change handler c is suspended on: on
   rejection the catch block sets the preview message; either way the loop
   goes on, pushing to whatever array selectedFiles refers to by now.       *)
ChangeConvDone(c, ok) ==
  /\ c \in 1..Len(changes)
  /\ changes[c].pc = "conv"
  /\ LET files  == Selections[changes[c].sel]
         i      == changes[c].i
         r      == ChangeLoop(c, files, i + 1, Batch,
                              IF ok THEN message ELSE MsgPreviewFailed(files[i].name),
                              changes[c].diags, changes[c].verdicts)
         e      == ChangeEnd(files, r)
     IN /\ arrays' = [arrays EXCEPT ![selectedFiles] = r.arr]
        /\ message' = e.msg
        /\ uploadDisabled' = e.disabled
        /\ changes' = [changes EXCEPT ![c] = [@ EXCEPT !.pc = e.pc, !.i = r.i, !.diags = e.diags,
                                                       !.verdicts = r.verdicts]]
  /\ UNCHANGED <<selectedFiles, inputDisabled, progressHidden, progress, timers, subs, requests, delivered>>

(* ------------------------------------------------------------------ *)
(* compressImage                                                       *)
(* ------------------------------------------------------------------ *)
(* Math.round(q) for the rational q = num / den, den > 0, num >= 0:
   halves round up.                                                         *)
MathRound(num, den) == (2 * num + den) \div (2 * den)

(* JavaScript numbers are IEEE 754 binary64.  A positive one is held here as
   its 53 significand bits, most significant first, and the exponent e of
   the leading bit: its value is the sum of m[k] * 2^(e - k + 1).  The
   arithmetic below is exact for widths below 2^18 and heights below 2^17;
   long numbers are worked on in digits of DigitBits bits.                  *)
SignificandBits == 53
DigitBits == 13

Zeros(n) == [k \in 1..n |-> 0]

RECURSIVE Pow2(_)
Pow2(k) == IF k = 0 THEN 1 ELSE 2 * Pow2(k - 1)

(* The natural number whose binary digits are the first k of bits *)
RECURSIVE BitsNat(_, _)
BitsNat(bits, k) == IF k = 0 THEN 0 ELSE 2 * BitsNat(bits, k - 1) + bits[k]

(* The bits of a sequence of digits, and the same without leading zeros *)
DigitsToBits(digits) ==
  [j \in 1..(DigitBits * Len(digits)) |->
     (digits[(j - 1) \div DigitBits + 1]
        \div Pow2(DigitBits - 1 - ((j - 1) % DigitBits))) % 2]

StripZeros(bits) ==
  LET ones == {k \in 1..Len(bits) : bits[k] = 1} IN
  IF ones = {} THEN << >>
  ELSE SubSeq(bits, CHOOSE k \in ones : \A j \in ones : k <= j, Len(bits))

(* bits + 1; a carry out of the leading bit lengthens the sequence *)
IncBits(bits) ==
  LET zeros == {k \in 1..Len(bits) : bits[k] = 0} IN
  IF zeros = {} THEN <<1>> \o Zeros(Len(bits))
  ELSE LET z == CHOOSE k \in zeros : \A j \in zeros : j <= k
       IN [k \in 1..Len(bits) |-> IF k < z THEN bits[k] ELSE IF k = z THEN 1 ELSE 0]

(* Round-to-nearest, ties-to-even, of the number with digits bits (leading
   digit 1, of exponent e) followed by a remainder that is zero, less than,
   equal to or more than half a unit of the last digit of bits ("zero",
   "lt", "eq", "gt").                                                        *)
RoundToDouble(bits, e, rest) ==
  LET n    == SignificandBits
      kept == IF Len(bits) >= n THEN SubSeq(bits, 1, n)
                                ELSE bits \o Zeros(n - Len(bits))
      tail == IF Len(bits) > n THEN SubSeq(bits, n + 1, Len(bits)) ELSE << >>
      half == IF tail = << >> THEN rest
              ELSE IF tail[1] = 0 THEN "lt"
              ELSE IF rest # "zero" \/ \E k \in 2..Len(tail) : tail[k] = 1 THEN "gt"
              ELSE "eq"
      up   == half = "gt" \/ (half = "eq" /\ kept[n] = 1)
      inc  == IncBits(kept)
  IN IF ~up THEN [m |-> kept, e |-> e]
     ELSE IF Len(inc) > n THEN [m |-> SubSeq(inc, 1, n), e |-> e + 1]
     ELSE [m |-> inc, e |-> e]

(* Long division: the next n digits of r / den, 0 <= r < den, and the
   remainder left                                                           *)
RECURSIVE QuotientDigits(_, _, _)
QuotientDigits(r, den, n) ==
  IF n = 0 THEN [digits |-> << >>, rem |-> r]
  ELSE LET q == QuotientDigits((r * Pow2(DigitBits)) % den, den, n - 1)
       IN [digits |-> <<(r * Pow2(DigitBits)) \div den>> \o q.digits, rem |-> q.rem]

(* The least k with num * 2^k >= den *)
RECURSIVE ShiftUp(_, _)
ShiftUp(num, den) == IF num >= den THEN 0 ELSE 1 + ShiftUp(2 * num, den)

(* The double num / den for naturals 0 < num < den *)
DoubleQuotient(num, den) ==
  LET k    == ShiftUp(num, den)
      q    == QuotientDigits(num * Pow2(k) - den, den, (SignificandBits - 1) \div DigitBits)
      rest == IF q.rem = 0 THEN "zero"
              ELSE IF 2 * q.rem < den THEN "lt"
              ELSE IF 2 * q.rem = den THEN "eq" ELSE "gt"
  IN RoundToDouble(<<1>> \o DigitsToBits(q.digits), -k, rest)

(* The digits of (the first k of digits) * h + carry, from the k-th back *)
RECURSIVE TimesNat(_, _, _, _)
TimesNat(digits, k, h, carry) ==
  IF k = 0 THEN <<carry \div Pow2(DigitBits), carry % Pow2(DigitBits)>>
  ELSE Append(TimesNat(digits, k - 1, h, (digits[k] * h + carry) \div Pow2(DigitBits)),
              (digits[k] * h + carry) % Pow2(DigitBits))

(* The double h * x for a natural h > 0 and a double x *)
DoubleTimesNat(h, x) ==
  LET n      == (SignificandBits - 1) \div DigitBits
      digits == [d \in 1..(n + 1) |->
                   IF d = 1 THEN x.m[1]
                   ELSE BitsNat(SubSeq(x.m, DigitBits * (d - 2) + 2, DigitBits * (d - 1) + 1),
                                DigitBits)]
      p      == StripZeros(DigitsToBits(TimesNat(digits, n + 1, h, 0)))
  IN RoundToDouble(p, x.e + (Len(p) - SignificandBits), "zero")

(* Math.round of a double x, 0 < x < 2^30: floor(x + 0.5) *)
MathRoundDouble(x) ==
  LET int  == IF x.e >= 0 THEN BitsNat(x.m, x.e + 1) ELSE 0
      half == IF x.e >= -1 THEN x.m[x.e + 2] ELSE 0
  IN int + half

(* Lines 159-161: scale = MAX_WIDTH / width; height = Math.round(height * scale),
   reached only with width > MAX_WIDTH                                      *)
ScaledHeight(width, height) ==
  IF height = 0 THEN 0
  ELSE MathRoundDouble(DoubleTimesNat(height, DoubleQuotient(MAX_WIDTH, width)))

NeedsResize(image) == ~(image.width <= MAX_WIDTH)

(* The File built in the toBlob callback: the canvas re-encoded as JPEG
   under the name of the normalised file.  The size of the blob is not
   modelled.                                                                *)
compressedFile(loadableFile) ==
  [name   |-> loadableFile.name,
   type   |-> TYPE_JPEG,
   size   |-> 0,
   width  |-> MAX_WIDTH,
   height |-> ScaledHeight(loadableFile.width, loadableFile.height)]

(* ------------------------------------------------------------------ *)
(* The submit handler of uploadForm                                    *)
(* ------------------------------------------------------------------ *)
(* pc: the callback the invocation waits for.  "conv": heic2any;
   "read": the FileReader; "decode": the Image; "encode": canvas.toBlob;
   "xhr": the request; "done": returned.
   files: the array prepareCompressedFiles iterates; i: the position of the
   file in work; loadable: loadableFile; compressed: compressedFiles, each
   with the batch file it came from; start: the batch when the handler
   began; nerr: the error messages this invocation has set.                 *)
NewSub ==
  [pc |-> "done", outcome |-> "empty", files |-> 0, i |-> 0, loadable |-> NoFile,
   compressed |-> << >>, start |-> << >>, nerr |-> 0]

(* compressImage(arr[sub.i]) up to its first suspension: ensureImageCanLoad
   awaits heic2any for a HEIC file and returns any other file at once, upon
   which readFileAsImage starts the FileReader.                             *)
BeginFile(sub, arr) ==
  LET file == FileOf(arr[sub.i]) IN
  IF isHeicFile(file)
    THEN [sub EXCEPT !.pc = "conv", !.loadable = NoFile]
    ELSE [sub EXCEPT !.pc = "read", !.loadable = file]

(* The finally block, lines 301-306, given the batch as it then is. *)
Finally(batch) ==
  /\ uploadDisabled' = (Len(batch) = 0)
  /\ inputDisabled' = FALSE
  /\ timers' = timers + 1

(* Variant: the handler without the test of lines 225-228; on an empty
   array prepareCompressedFiles returns at once and the request is sent     *)
SubmitEvent_NoEmptyCheck ==
  /\ ~uploadDisabled
  /\ Len(changes) + Len(subs) < MaxEvents
  /\ uploadDisabled' = TRUE
  /\ inputDisabled' = TRUE
  /\ message' = NoMessage
  /\ progressHidden' = FALSE
  /\ LET sub == [NewSub EXCEPT !.outcome = "pending", !.files = selectedFiles,
                               !.i = 1, !.start = Batch]
     IN IF Len(Batch) = 0
          THEN /\ progress' = 30
               /\ subs' = Append(subs, [sub EXCEPT !.pc = "xhr"])
               /\ requests' = Append(requests, [sub |-> Len(subs) + 1, batch |-> << >>])
          ELSE /\ progress' = 10
               /\ subs' = Append(subs, BeginFile(sub, Batch))
               /\ UNCHANGED requests
  /\ UNCHANGED <<arrays, selectedFiles, timers, changes, delivered>>

(* A submit event; the user can click the button only while it is enabled. *)
SubmitEvent ==
  /\ ~uploadDisabled
  /\ Len(changes) + Len(subs) < MaxEvents
  /\ IF Len(Batch) = 0
       THEN /\ message' = MsgPleaseSelect
            /\ subs' = Append(subs, [NewSub EXCEPT !.nerr = 1])
            /\ UNCHANGED <<uploadDisabled, inputDisabled, progressHidden, progress>>
       ELSE /\ uploadDisabled' = TRUE
            /\ inputDisabled' = TRUE
            /\ message' = NoMessage
            /\ progressHidden' = FALSE
            /\ progress' = 10
            /\ subs' = Append(subs,
                 BeginFile([NewSub EXCEPT !.outcome = "pending", !.files = selectedFiles,
                                          !.i = 1, !.start = Batch], Batch))
  /\ UNCHANGED <<arrays, selectedFiles, timers, changes, requests, delivered>>

Waiting(s, pc) == s \in 1..Len(subs) /\ subs[s].pc = pc

(* Variant: the catch block rethrows without telling the user *)
PrepFail_Silent(s) ==
  /\ subs' = [subs EXCEPT ![s] = [@ EXCEPT !.pc = "done", !.outcome = "prepFailed"]]
  /\ Finally(Batch)
  /\ UNCHANGED <<arrays, selectedFiles, message, progressHidden, progress, changes,
                 requests, delivered>>

(* A stage of compressImage rejects: the catch block of
   prepareCompressedFiles sets the message and rethrows, the submit handler
   logs and runs its finally block.                                         *)
PrepFail(s) ==
  /\ message' = MsgNotProcessed
  /\ subs' = [subs EXCEPT ![s] = [@ EXCEPT !.pc = "done", !.outcome = "prepFailed",
                                          !.nerr = @ + 1]]
  /\ Finally(Batch)
  /\ UNCHANGED <<arrays, selectedFiles, progressHidden, progress, changes, requests, delivered>>

(* Variant: the result is put in front of compressedFiles (unshift for push) *)
PrepNext_Unshift(s, result) ==
  LET sub  == subs[s]
      arr  == arrays[sub.files]
      done == <<[src |-> arr[sub.i], file |-> result]>> \o sub.compressed
      next == [sub EXCEPT !.compressed = done, !.i = sub.i + 1]
  IN /\ IF next.i <= Len(arr)
          THEN /\ subs' = [subs EXCEPT ![s] = BeginFile(next, arr)]
               /\ UNCHANGED <<progress, requests>>
          ELSE /\ subs' = [subs EXCEPT ![s] = [next EXCEPT !.pc = "xhr", !.loadable = NoFile]]
               /\ progress' = 30
               /\ requests' = Append(requests, [sub |-> s, batch |-> done])
     /\ UNCHANGED <<arrays, selectedFiles, message, uploadDisabled, inputDisabled,
                    progressHidden, timers, changes, delivered>>

(* compressImage returned result for the file in work: the loop of
   prepareCompressedFiles pushes it and goes to the next element the array
   now has; when there is none the handler builds the form data, sets the
   progress to 30 and sends the request.                                    *)
PrepNext(s, result) ==
  LET sub  == subs[s]
      arr  == arrays[sub.files]
      done == Append(sub.compressed, [src |-> arr[sub.i], file |-> result])
      next == [sub EXCEPT !.compressed = done, !.i = sub.i + 1]
  IN /\ IF next.i <= Len(arr)
          THEN /\ subs' = [subs EXCEPT ![s] = BeginFile(next, arr)]
               /\ UNCHANGED <<progress, requests>>
          ELSE /\ subs' = [subs EXCEPT ![s] = [next EXCEPT !.pc = "xhr", !.loadable = NoFile]]
               /\ progress' = 30
               /\ requests' = Append(requests, [sub |-> s, batch |-> done])
     /\ UNCHANGED <<arrays, selectedFiles, message, uploadDisabled, inputDisabled,
                    progressHidden, timers, changes, delivered>>

(* heic2any settles for the file in work *)
SubConvDone(s, ok) ==
  /\ Waiting(s, "conv")
  /\ IF ok
       THEN /\ subs' = [subs EXCEPT ![s] =
                 [@ EXCEPT !.pc = "read",
                           !.loadable = convertHeicToJpeg(
                                          FileOf(arrays[subs[s].files][subs[s].i]))]]
            /\ UNCHANGED <<arrays, selectedFiles, message, uploadDisabled, inputDisabled,
                           progressHidden, progress, timers, changes, requests, delivered>>
       ELSE PrepFail(s)

(* reader.onload (the Image starts loading) or reader.onerror *)
SubReadDone(s, ok) ==
  /\ Waiting(s, "read")
  /\ IF ok
       THEN /\ subs' = [subs EXCEPT ![s] = [@ EXCEPT !.pc = "decode"]]
            /\ UNCHANGED <<arrays, selectedFiles, message, uploadDisabled, inputDisabled,
                           progressHidden, progress, timers, changes, requests, delivered>>
       ELSE PrepFail(s)

(* img.onload, after which compressImage returns the file as it is or draws
   the canvas and calls toBlob; or img.onerror                              *)
SubDecodeDone(s, ok) ==
  /\ Waiting(s, "decode")
  /\ IF ~ok
       THEN PrepFail(s)
       ELSE IF NeedsResize(subs[s].loadable)
         THEN /\ subs' = [subs EXCEPT ![s] = [@ EXCEPT !.pc = "encode"]]
              /\ UNCHANGED <<arrays, selectedFiles, message, uploadDisabled, inputDisabled,
                             progressHidden, progress, timers, changes, requests, delivered>>
         ELSE PrepNext(s, subs[s].loadable)

(* Variant: the toBlob callback returns on a null blob without rejecting,
   so the promise of compressImage never settles                            *)
SubEncodeDone_NoReject(s, ok) ==
  /\ Waiting(s, "encode")
  /\ IF ok
       THEN PrepNext(s, compressedFile(subs[s].loadable))
       ELSE /\ subs' = [subs EXCEPT ![s] = [@ EXCEPT !.pc = "never"]]
            /\ UNCHANGED <<arrays, selectedFiles, message, uploadDisabled, inputDisabled,
                           progressHidden, progress, timers, changes, requests, delivered>>

(* The toBlob callback, with a blob or with null *)
SubEncodeDone(s, ok) ==
  /\ Waiting(s, "encode")
  /\ IF ok THEN PrepNext(s, compressedFile(subs[s].loadable)) ELSE PrepFail(s)

(* ------------------------------------------------------------------ *)
(* The upload request                                                  *)
(* ------------------------------------------------------------------ *)
(* The handler after the awaited promise settled by the decision d of the
   readystatechange callback: lines 294-297 when it resolved, then the
   catch and finally blocks.  r names the response (0: none, the network
   failed), errs counts the error messages the callbacks of the task set.   *)
AfterRequest(s, d, outcome, r, errs) ==
  /\ subs' = [subs EXCEPT ![s] =
       [@ EXCEPT !.pc = "done", !.outcome = outcome, !.nerr = @ + errs]]
  /\ delivered' = [sub |-> s, resp |-> r]
  /\ IF d.ok
       THEN /\ progress' = 100
            /\ arrays' = Append(arrays, << >>)
            /\ selectedFiles' = Len(arrays) + 1
            /\ Finally(<< >>)
       ELSE /\ Finally(Batch)
            /\ UNCHANGED <<progress, arrays, selectedFiles>>
  /\ UNCHANGED <<progressHidden, changes, requests>>

(* readyState reaches DONE with an HTTP response *)
XhrDone(s, r) ==
  /\ Waiting(s, "xhr")
  /\ LET d == OnReadyStateDone(Responses[r]) IN
     /\ message' = d.msg
     /\ AfterRequest(s, d, IF d.ok THEN "success" ELSE "uploadFailed", r,
                     IF d.ok THEN 0 ELSE 1)

(* The request fails at the network level.  The browser fires
   readystatechange (DONE, status 0, empty responseText) and then error in
   one task; the promise continuations run between the two callbacks, so
   the handler has finished when xhr.onerror sets its message.              *)
XhrNetworkError(s) ==
  /\ Waiting(s, "xhr")
  /\ LET d == OnReadyStateDone(NetworkFailure) IN
     /\ AfterRequest(s, d, "networkFailed", 0, (IF d.ok THEN 0 ELSE 1) + 1)
     /\ message' = MsgNetworkError

(* xhr.upload.onprogress with lengthComputable: loaded of total bytes sent.
   One such event is modelled, at half of the upload.                       *)
ProgressLoaded == 1
ProgressTotal == 2

XhrProgress(s) ==
  /\ Waiting(s, "xhr")
  /\ LET percent == MathRound(30 * ProgressTotal + ProgressLoaded * 60, ProgressTotal) IN
     progress' = IF percent > 95 THEN 95 ELSE percent
  /\ UNCHANGED <<arrays, selectedFiles, message, uploadDisabled, inputDisabled,
                 progressHidden, timers, changes, subs, requests, delivered>>

(* The callback of setTimeout(..., 1200) of some finally block *)
TimerFire ==
  /\ timers > 0
  /\ timers' = timers - 1
  /\ progressHidden' = TRUE
  /\ progress' = 0
  /\ UNCHANGED <<arrays, selectedFiles, message, uploadDisabled, inputDisabled,
                 changes, subs, requests, delivered>>

(* ------------------------------------------------------------------ *)
(* Specification                                                       *)
(* ------------------------------------------------------------------ *)
Next ==
  \/ \E sel \in SelIds : ChangeEvent(sel)
  \/ \E c \in 1..MaxEvents, ok \in BOOLEAN : ChangeConvDone(c, ok)
  \/ SubmitEvent
  \/ \E s \in 1..MaxEvents, ok \in BOOLEAN : SubConvDone(s, ok)
  \/ \E s \in 1..MaxEvents, ok \in BOOLEAN : SubReadDone(s, ok)
  \/ \E s \in 1..MaxEvents, ok \in BOOLEAN : SubDecodeDone(s, ok)
  \/ \E s \in 1..MaxEvents, ok \in BOOLEAN : SubEncodeDone(s, ok)
  \/ \E s \in 1..MaxEvents, r \in RespIds : XhrDone(s, r)
  \/ \E s \in 1..MaxEvents : XhrNetworkError(s)
  \/ \E s \in 1..MaxEvents : XhrProgress(s)
  \/ TimerFire

Spec == Init /\ [][Next]_vars

(* Every asynchronous operation a submit handler waits for delivers one of
   its completion callbacks: heic2any settles, the FileReader fires load or
   error, the Image fires load or error, toBlob calls back, the request
   reaches DONE.                                                            *)
CallbacksDelivered ==
  \A s \in 1..MaxEvents :
    /\ WF_vars(\E ok \in BOOLEAN : SubConvDone(s, ok))
    /\ WF_vars(\E ok \in BOOLEAN : SubReadDone(s, ok))
    /\ WF_vars(\E ok \in BOOLEAN : SubDecodeDone(s, ok))
    /\ WF_vars(\E ok \in BOOLEAN : SubEncodeDone(s, ok))
    /\ WF_vars((\E r \in RespIds : XhrDone(s, r)) \/ XhrNetworkError(s))

LiveSpec == Init /\ [][Next]_vars /\ CallbacksDelivered

(* ------------------------------------------------------------------ *)
(* Vocabulary of the properties                                        *)
(* ------------------------------------------------------------------ *)
SubIds == 1..Len(subs)
ChangeIds == 1..Len(changes)

InFlight(s) == s \in SubIds /\ subs[s].pc # "done"

(* In this step invocation s of the submit handler runs its finally block *)
Completes(s) == InFlight(s) /\ subs'[s].pc = "done"

Failed(s) ==
  s \in SubIds /\ subs[s].outcome \in {"prepFailed", "uploadFailed", "networkFailed"}

Sent(s) == \E k \in 1..Len(requests) : requests[k].sub = s

(* Every file that is or was in an array selectedFiles has named, or in a
   list of compressed files, or in a request                                *)
RefsOf(seq) == {seq[k] : k \in 1..Len(seq)}

BatchRefs == UNION {RefsOf(arrays[a]) : a \in 1..Len(arrays)}

UploadedRefs ==
  UNION {{requests[k].batch[j].src : j \in 1..Len(requests[k].batch)} : k \in 1..Len(requests)}

Count(seq, x) == Cardinality({k \in 1..Len(seq) : seq[k] = x})

(* The validation rules as the specification words them *)
DeclaredImage(file) ==
  Len(file.type) >= 6 /\ SubSeq(file.type, 1, 6) = <<"i","m","a","g","e","/">>

DetectedHeic(file) ==
  \/ file.type \in {TYPE_HEIC, TYPE_HEIF}
  \/ /\ Len(file.name) >= 5
     /\ ToLower(SubSeq(file.name, Len(file.name) - 4, Len(file.name))) \in {EXT_HEIC, EXT_HEIF}

PassedValidation(ref) ==
  /\ ref.pos <= 10
  /\ DeclaredImage(FileOf(ref)) \/ DetectedHeic(FileOf(ref))
  /\ FileOf(ref).size <= 20 * 1024 * 1024

(* C1: every file in an array selectedFiles refers or referred to, and every
   file handed to an upload request, is among the first 10 of its selection,
   is declared an image or detected as HEIC/HEIF, and has at most 20 MiB;
   so no file the selection handler rejected is in the batch or uploaded.   *)
C1_OnlyValidatedFiles == \A ref \in BatchRefs \cup UploadedRefs : PassedValidation(ref)

(* A request went out for a batch taken from the selection that holds a
   file over the size limit.                                                *)
C1_Witness ==
  \E ref \in UploadedRefs :
    \E p \in 1..Len(Selections[changes[ref.ev].sel]) :
      ~PassedValidation(Ref(ref.ev, p))

(* C2: the current batch holds at most MAX_FILES = 10 files in every
   reachable state.                                                         *)
C2_BatchAtMostMaxFiles == Len(Batch) <= 10

(* C3: at most one submission is in flight, and while one is in flight the
   upload button is disabled.                                               *)
C3_SingleFlight ==
  /\ Cardinality({s \in SubIds : InFlight(s)}) <= 1
  /\ (\E s \in SubIds : InFlight(s)) => uploadDisabled

(* C4: when a stage fails for a file of the batch, the step shows the error
   message and processes nothing more (the position in the batch and the
   list of prepared files stay as they were); a submission that failed in
   preparation has sent no request and never does anything again.           *)
C4_FailFast ==
  /\ [] (\A s \in SubIds : subs[s].outcome = "prepFailed" => subs[s].pc = "done" /\ ~Sent(s))
  /\ [][\A s \in 1..MaxEvents :
          /\ (InFlight(s) /\ subs'[s].outcome = "prepFailed") =>
               /\ subs'[s].i = subs[s].i
               /\ subs'[s].compressed = subs[s].compressed
               /\ subs[s].i <= Len(arrays[subs[s].files])
               /\ requests' = requests
               /\ message' = MsgNotProcessed
               /\ message'.type = "error"
          /\ (s \in SubIds /\ subs[s].outcome = "prepFailed") => subs'[s] = subs[s]
       ]_vars

(* A submission failed in preparation at a file that is not the last of its
   batch, with a file prepared before it.                                   *)
C4_Witness ==
  \E s \in SubIds :
    /\ subs[s].outcome = "prepFailed"
    /\ subs[s].i < Len(arrays[subs[s].files])
    /\ Len(subs[s].compressed) > 0
    /\ message = MsgNotProcessed

(* C5: the step in which a submission ends in failure leaves the batch
   holding the files it held when the submission started and the upload
   button enabled; the batch is emptied by a submission only on success.    *)
C5_FailureKeepsBatch ==
  [][\A s \in 1..MaxEvents :
       (Completes(s) /\ subs'[s].outcome # "success") =>
          /\ Batch' = subs[s].start
          /\ ~uploadDisabled'
    ]_vars

(* C6: every submission that has started eventually completes, with the
   file input enabled again, when every pending operation delivers one of
   its completion callbacks.                                                *)
C6_SubmissionCompletes ==
  \A s \in 1..MaxEvents :
    InFlight(s) ~> (s \in SubIds /\ subs[s].pc = "done" /\ ~inputDisabled)

(* A submission that went through conversion, read, decode and re-encoding
   of a file has had its request answered.                                  *)
C6_Witness ==
  \E s \in SubIds :
    /\ subs[s].outcome \in {"success", "uploadFailed"}
    /\ \E j \in 1..Len(subs[s].compressed) :
         subs[s].compressed[j].file.width = MAX_WIDTH
    /\ ~inputDisabled

(* The response an invocation got in the step in which its request ended *)
GotResponse(s) == Completes(s) /\ subs[s].pc = "xhr" /\ delivered'.sub = s

StatusOk(r) == Responses[r].status \in 200..299

ParsesToObject(r) ==
  Responses[r].body.kind = "json" /\ Responses[r].body.value.t = "object"

FieldsOf(r) == Responses[r].body.value.fields

SuccessIsTrue(r) ==
  /\ ParsesToObject(r)
  /\ "success" \in DOMAIN FieldsOf(r)
  /\ FieldsOf(r).success.t = "boolean"
  /\ FieldsOf(r).success.b = TRUE

(* true, a number other than 0, a string other than "", an object *)
SuccessIsTruthy(r) ==
  /\ ParsesToObject(r)
  /\ "success" \in DOMAIN FieldsOf(r)
  /\ \/ FieldsOf(r).success.t = "boolean" /\ FieldsOf(r).success.b = TRUE
     \/ FieldsOf(r).success.t = "number" /\ FieldsOf(r).success.n # 0
     \/ FieldsOf(r).success.t = "string" /\ FieldsOf(r).success.s # ""
     \/ FieldsOf(r).success.t = "object"

(* What the handler does on success: the message, the progress, the batch *)
ShowsSuccess == message = MsgUploaded /\ progress = 100 /\ Len(Batch) = 0

(* C7 as claimed: the step in which a request ends treats the submission as
   successful if and only if the status is in 200..299 and the body parses
   to an object whose success field is true.                                *)
C7_SuccessIffTrue ==
  [][\A s \in 1..MaxEvents :
       GotResponse(s) =>
         (ShowsSuccess' <=>
            (delivered'.resp # 0 /\ StatusOk(delivered'.resp) /\ SuccessIsTrue(delivered'.resp)))
    ]_vars

(* C7 amended: ... if and only if the status is in 200..299 and the body
   parses to an object whose success field is truthy; the outcome recorded
   is success exactly then, and 2xx with success false, with an empty body
   or with an unparsable body is a failure.                                 *)
C7_SuccessIffTruthy ==
  [][\A s \in 1..MaxEvents :
       GotResponse(s) =>
         LET good == /\ delivered'.resp # 0
                     /\ StatusOk(delivered'.resp)
                     /\ SuccessIsTruthy(delivered'.resp)
         IN /\ ShowsSuccess' <=> good
            /\ (subs'[s].outcome = "success") <=> good
            /\ ~good => message'.type = "error"
    ]_vars

(* A 2xx response with an empty body has just been treated as a failure *)
C7_Witness ==
  /\ delivered.resp # 0
  /\ Responses[delivered.resp] = Response(200, EmptyBody)
  /\ subs[delivered.sub].outcome = "uploadFailed"
  /\ message.text = DefaultUploadError

(* C8: when the response is not a success and its JSON body carries a
   non-empty error string, the message displayed in the state in which the
   submission has finished is exactly that string, typed as an error.       *)
C8_ServerErrorShown ==
  [][\A s \in 1..MaxEvents :
       (/\ GotResponse(s)
        /\ delivered'.resp # 0
        /\ subs'[s].outcome # "success"
        /\ ParsesToObject(delivered'.resp)
        /\ "error" \in DOMAIN FieldsOf(delivered'.resp)
        /\ FieldsOf(delivered'.resp).error.t = "string"
        /\ FieldsOf(delivered'.resp).error.s # "")
       => /\ message'.text = FieldsOf(delivered'.resp).error.s
          /\ message'.arg = << >>
          /\ message'.type = "error"
    ]_vars

(* HTTP 500 with {"success": false, "error": "disk full"} was delivered *)
C8_Witness ==
  /\ delivered.resp # 0
  /\ Responses[delivered.resp].status = 500
  /\ subs[delivered.sub].outcome = "uploadFailed"
  /\ message = Msg("disk full", << >>, "error")

(* C9: a failed submission has set an error message exactly once *)
C9_OneMessagePerFailure == \A s \in SubIds : Failed(s) => subs[s].nerr = 1

(* C10: of a selection of more than 10 files no file at position 11 or
   later is ever in an array of selected files, the files of the selection
   stand in every such array in selection order, and the handler has
   emitted TooManyFiles exactly once.                                       *)
C10_FirstTenInOrder ==
  \A c \in ChangeIds :
    Len(Selections[changes[c].sel]) > 10 =>
      /\ \A ref \in BatchRefs : ref.ev = c => ref.pos <= 10
      /\ \A a \in 1..Len(arrays) : \A j, k \in 1..Len(arrays[a]) :
           (j < k /\ arrays[a][j].ev = c /\ arrays[a][k].ev = c)
             => arrays[a][j].pos < arrays[a][k].pos
      /\ Count(changes[c].diags, "TooManyFiles") = 1

(* The handler of a selection of 12 images has finished with 10 of them in
   the batch.                                                               *)
C10_Witness ==
  \E c \in ChangeIds :
    /\ Len(Selections[changes[c].sel]) = 12
    /\ changes[c].pc = "done"
    /\ Cardinality({k \in 1..Len(Batch) : Batch[k].ev = c}) = 10

(* In this step invocation c of the change handler returns *)
ChangeFinishes(c) ==
  /\ c \in 1..Len(changes')
  /\ changes'[c].pc = "done"
  /\ c \in ChangeIds => changes[c].pc # "done"

(* The text setMessage was given for a validation diagnostic *)
DiagnosticText(d) ==
  CASE d = "TooManyFiles" -> "You can select a maximum of 10 photos."
    [] d = "NotAnImage"   -> "Only image files are allowed."
    [] d = "FileTooLarge" -> "Each photo must be smaller than 20MB. \"<name>\" is too large."
    [] d = "NoValidFiles" -> "No valid images selected. Please choose different files."

(* C11: when an invocation of the change handler returns, every validation
   diagnostic it emitted (TooManyFiles, NotAnImage, FileTooLarge,
   NoValidFiles) is shown in the message element.                           *)
C11_DiagnosticsCollected ==
  [][ \A c \in 1..MaxEvents :
        ChangeFinishes(c) =>
          \A k \in 1..Len(changes'[c].diags) :
            message'.text = DiagnosticText(changes'[c].diags[k])
    ]_vars

(* C12: every file the loop of a change handler has considered whose size
   exceeds 20 MiB was rejected with FileTooLarge, whatever its declared
   type, and no file of exactly 20 MiB was rejected with FileTooLarge.      *)
C12_OversizeIsFileTooLarge ==
  \A c \in ChangeIds : \A k \in 1..Len(changes[c].verdicts) :
    LET file == Selections[changes[c].sel][k] IN
    /\ file.size > 20 * 1024 * 1024 => changes[c].verdicts[k] = "FileTooLarge"
    /\ file.size = 20 * 1024 * 1024 => changes[c].verdicts[k] # "FileTooLarge"

(* In this step compressImage returns to prepareCompressedFiles of
   invocation s, which pushes the result                                    *)
CompressReturns(s) ==
  /\ s \in SubIds
  /\ Len(subs'[s].compressed) = Len(subs[s].compressed) + 1

(* The nearest integer to num / den, halves upwards, in exact arithmetic *)
RoundedQuotient(num, den) == (2 * num + den) \div (2 * den)

(* C13: what compressImage returns for the normalised file loadableFile
   with a raster of w x h: loadableFile itself if w <= 1920, and otherwise
   a file of width 1920, height round(h * 1920 / w) and the same name.      *)
C13_ResizeExact ==
  [][ \A s \in 1..MaxEvents :
        CompressReturns(s) =>
          LET loadableFile == subs[s].loadable
              result == subs'[s].compressed[Len(subs'[s].compressed)].file
          IN IF loadableFile.width <= 1920
               THEN result = loadableFile
               ELSE /\ result.width = 1920
                    /\ result.height = RoundedQuotient(loadableFile.height * 1920,
                                                       loadableFile.width)
                    /\ result.name = loadableFile.name
    ]_vars

(* Every file prepareCompressedFiles has produced, sent or not *)
PreparedFiles ==
  UNION {{subs[s].compressed[k].file : k \in 1..Len(subs[s].compressed)} : s \in SubIds}

(* C14: no file produced by the preparation pipeline is wider or higher
   than 1920.                                                               *)
C14_BothDimensionsBounded ==
  \A file \in PreparedFiles : file.width <= 1920 /\ file.height <= 1920

(* The name with a final .heic or .heif, in any letter case, replaced by .jpg *)
JpgNamed(name) ==
  IF Len(name) >= 5
     /\ ToLower(SubSeq(name, Len(name) - 4, Len(name))) \in {EXT_HEIC, EXT_HEIF}
    THEN SubSeq(name, 1, Len(name) - 5) \o <<".","j","p","g">>
    ELSE name

(* Invocation s holds the normalised form of the file in work *)
HasNormalized(s) == s \in SubIds /\ subs[s].pc \in {"read", "decode", "encode"}

SourceInWork(s) == FileOf(arrays[subs[s].files][subs[s].i])

(* C15: no file detected as HEIC/HEIF by its type or its name was rejected
   by the type check; the normalised form of such a file has type
   image/jpeg and the name with the HEIC/HEIF extension replaced by .jpg;
   the normalised form of any other file is the file itself.                *)
C15_HeicNormalized ==
  /\ \A c \in ChangeIds : \A k \in 1..Len(changes[c].verdicts) :
       DetectedHeic(Selections[changes[c].sel][k]) => changes[c].verdicts[k] # "NotAnImage"
  /\ \A s \in SubIds :
       HasNormalized(s) =>
         IF DetectedHeic(SourceInWork(s))
           THEN /\ subs[s].loadable.type = <<"i","m","a","g","e","/","j","p","e","g">>
                /\ subs[s].loadable.name = JpgNamed(SourceInWork(s).name)
           ELSE subs[s].loadable = SourceInWork(s)

(* P.HEIC with an empty declared type was accepted and converted: its
   normalised form is P.jpg of type image/jpeg.                             *)
C15_Witness ==
  \E s \in SubIds :
    /\ HasNormalized(s)
    /\ SourceInWork(s).name = <<"P",".","H","E","I","C">>
    /\ SourceInWork(s).type = << >>
    /\ subs[s].loadable.name = <<"P",".","j","p","g">>
    /\ subs[s].loadable.type = TYPE_JPEG

(* The stages of compressImage in the order it runs them *)
StageRank(pc) ==
  CASE pc = "conv" -> 1 [] pc = "read" -> 2 [] pc = "decode" -> 3 [] pc = "encode" -> 4

Preparing(s) == s \in SubIds /\ subs[s].pc \in {"conv", "read", "decode", "encode"}

(* C16: prepareCompressedFiles works on one file at a time, in the order of
   the array: while file i is in a stage, the files before it and no others
   have been completed, entry k of the output coming from file k; a step
   of the invocation either takes file i to a later stage, or completes
   file i after its decode or encode stage and starts file i + 1, or ends
   the preparation; the request it builds has one entry per file of the
   array.                                                                   *)
C16_SequentialInOrder ==
  /\ [](\A s \in SubIds :
         /\ Preparing(s) => Len(subs[s].compressed) = subs[s].i - 1
         /\ \A k \in 1..Len(subs[s].compressed) :
              subs[s].compressed[k].src = arrays[subs[s].files][k])
  /\ [][ \A s \in 1..MaxEvents :
          (Preparing(s) /\ subs'[s] # subs[s]) =>
            \/ /\ Preparing(s)'
               /\ subs'[s].i = subs[s].i
               /\ StageRank(subs'[s].pc) > StageRank(subs[s].pc)
            \/ /\ Preparing(s)'
               /\ subs[s].pc \in {"decode", "encode"}
               /\ subs'[s].i = subs[s].i + 1
               /\ Len(subs'[s].compressed) = subs[s].i
               /\ StageRank(subs'[s].pc) <= 2
            \/ /\ subs'[s].pc = "xhr"
               /\ subs[s].pc \in {"decode", "encode"}
               /\ Len(subs'[s].compressed) = Len(arrays[subs[s].files])
               /\ requests' = Append(requests, [sub |-> s, batch |-> subs'[s].compressed])
            \/ /\ subs'[s].pc = "done"
               /\ subs'[s].outcome = "prepFailed"
               /\ requests' = requests
      ]_vars

(* A request was built from an array of ten files, entry 1 from the first
   and entry 10 from the tenth.                                             *)
C16_Witness ==
  \E r \in 1..Len(requests) :
    /\ Len(requests[r].batch) = 10
    /\ requests[r].batch[1].src.pos = 1
    /\ requests[r].batch[10].src.pos = 10
    /\ requests[r].batch[1].file.width = 1920

(* C17: while a submission is in flight the array its
   prepareCompressedFiles iterates holds the files it held when the
   submission started.                                                      *)
C17_BatchUntouchedInFlight ==
  \A s \in SubIds : InFlight(s) => arrays[subs[s].files] = subs[s].start

AllChangesDone == \A c \in ChangeIds : changes[c].pc = "done"

(* C18: once every change handler has returned, the batch holds only files
   of the most recent selection event, in the order of that selection.      *)
C18_OnlyLatestSelection ==
  AllChangesDone =>
    /\ \A k \in 1..Len(Batch) : Batch[k].ev = Len(changes)
    /\ \A j, k \in 1..Len(Batch) : j < k => Batch[j].pos < Batch[k].pos

(* C19: while a submission is in flight the progress area is visible and
   the progress bar is not at 0%.                                           *)
C19_ProgressStaysVisible ==
  (\E s \in SubIds : InFlight(s)) => (~progressHidden /\ progress > 0)

(* In this step a submit event is handled that finds the batch empty *)
SubmitsEmpty == Len(subs') = Len(subs) + 1 /\ Len(Batch) = 0

(* C20: every request sent carries at least one file; an invocation of the
   submit handler that found the batch empty sent none; the array of an
   invocation in flight is not empty; and a submit event that finds the
   batch empty sends nothing, returns and shows 'Please select at least
   one photo.'.                                                             *)
C20_NoEmptyUpload ==
  /\ [](/\ \A r \in 1..Len(requests) : Len(requests[r].batch) >= 1
        /\ \A s \in SubIds : subs[s].outcome = "empty" => ~Sent(s)
        /\ \A s \in SubIds : InFlight(s) => Len(arrays[subs[s].files]) >= 1)
  /\ [][ SubmitsEmpty =>
           /\ requests' = requests
           /\ subs'[Len(subs')].pc = "done"
           /\ message'.text = "Please select at least one photo."
           /\ message'.type = "error"
      ]_vars

(* A submit event found the batch empty and was answered with the message,
   and another invocation has sent a request.                               *)
C20_Witness ==
  /\ \E s \in SubIds : subs[s].outcome = "empty" /\ ~Sent(s)
  /\ \E s \in SubIds : Sent(s)

====
